---------------------------- MODULE Spec2Model ----------------------------
(***************************************************************************)
(* Verification model of the fast-date codecs (Rata Die <-> proleptic      *)
(* Gregorian date) and the branch-free leap-year oracles.                  *)
(*                                                                         *)
(* Fixed-width C++ unsigned integers are modelled as little-endian         *)
(* sequences of base-256 limbs: uint32_t is 4 limbs, uint64_t is 8 limbs,  *)
(* __uint128_t is 16 limbs.  Every operation truncates to the width of the *)
(* C++ type that holds the result, so wrap-around is modelled exactly.     *)
(* Values the code provably keeps below 2^31 (rem, N, M, D, month, day)    *)
(* are ordinary integers.                                                  *)
(***************************************************************************)
EXTENDS Integers, Naturals, Sequences, FiniteSets, TLC

(***************************************************************************)
(* Fixed-width unsigned arithmetic                                         *)
(***************************************************************************)

\* number of base-256 limbs of uint32_t, uint64_t and __uint128_t
W32 == 4
W64 == 8
W128 == 16

\* a sequence of k zero limbs
Zeros(k) == [i \in 1..k |-> 0]

\* conversion of a signed 32-bit value to an unsigned type of w >= 4 limbs
\* (two's complement, sign-extended): static_cast<uintN_t>(int32_t)
FromInt(n, w) ==
  << n % 256, (n \div 256) % 256, (n \div 65536) % 256,
     (n \div 16777216) % 256 >>
    \o [i \in 1..(w - 4) |-> IF n < 0 THEN 255 ELSE 0]

U32(n) == FromInt(n, W32)
U64(n) == FromInt(n, W64)

\* conversion of the low 32 bits to int32_t (two's complement)
ToInt(a) ==
  a[1] + 256 * a[2] + 65536 * a[3]
    + 16777216 * (IF a[4] >= 128 THEN a[4] - 256 ELSE a[4])

\* value of an unsigned number known to be below 2^31
ToNat(a) == a[1] + 256 * a[2] + 65536 * a[3] + 16777216 * a[4]

\* widening or truncating conversion between unsigned types
Resize(a, w) ==
  IF w <= Len(a) THEN SubSeq(a, 1, w) ELSE a \o Zeros(w - Len(a))

RECURSIVE AddC(_, _, _, _, _)
AddC(a, b, i, c, w) ==
  IF i > w THEN << >>
  ELSE LET s == a[i] + b[i] + c
       IN  <<s % 256>> \o AddC(a, b, i + 1, s \div 256, w)

\* a + b modulo 2^(8 * Len(a)); both operands have the same width
Add(a, b) == AddC(a, b, 1, 0, Len(a))

RECURSIVE SubC(_, _, _, _, _)
SubC(a, b, i, c, w) ==
  IF i > w THEN << >>
  ELSE LET s == a[i] + (255 - b[i]) + c
       IN  <<s % 256>> \o SubC(a, b, i + 1, s \div 256, w)

\* a - b modulo 2^(8 * Len(a)), as a + ~b + 1
Sub(a, b) == SubC(a, b, 1, 1, Len(a))

RECURSIVE MulSC(_, _, _, _, _)
MulSC(a, c, i, k, w) ==
  IF i > w THEN << >>
  ELSE LET s == a[i] * c + k
       IN  <<s % 256>> \o MulSC(a, c, i + 1, s \div 256, w)

\* a * c modulo 2^(8 * Len(a)) for a small constant 0 <= c < 2^23
MulS(a, c) == MulSC(a, c, 1, 0, Len(a))

RECURSIVE ColSum(_, _, _, _, _, _)
ColSum(a, b, k, i, la, lb) ==
  IF i > la \/ i > k THEN 0
  ELSE (IF k + 1 - i <= lb THEN a[i] * b[k + 1 - i] ELSE 0)
       + ColSum(a, b, k, i + 1, la, lb)

RECURSIVE MulC(_, _, _, _, _, _, _)
MulC(a, b, k, c, w, la, lb) ==
  IF k > w THEN << >>
  ELSE LET s == ColSum(a, b, k, 1, la, lb) + c
       IN  <<s % 256>> \o MulC(a, b, k + 1, s \div 256, w, la, lb)

\* a * b modulo 2^(8 * w)
Mul(a, b, w) == MulC(a, b, 1, 0, w, Len(a), Len(b))

\* long division of the limbs i..1 of a by a small constant 0 < c < 2^23,
\* r being the remainder of the limbs above i
RECURSIVE DivAt(_, _, _, _)
DivAt(a, c, i, r) ==
  IF i = 0 THEN << >>
  ELSE LET cur == r * 256 + a[i]
       IN  DivAt(a, c, i - 1, cur % c) \o <<cur \div c>>

RECURSIVE ModAt(_, _, _, _)
ModAt(a, c, i, r) ==
  IF i = 0 THEN r ELSE ModAt(a, c, i - 1, (r * 256 + a[i]) % c)

\* a / c (same width as a) and a % c (an integer), unsigned
DivS(a, c) == DivAt(a, c, Len(a), 0)
ModS(a, c) == ModAt(a, c, Len(a), 0)

\* a >> k, result of the same width as a
Shr(a, k) ==
  LET q == k \div 8
      dropped == SubSeq(a, q + 1, Len(a)) \o Zeros(q)
  IN  IF k % 8 = 0 THEN dropped ELSE DivS(dropped, 2 ^ (k % 8))

\* a < b for unsigned values of the same width
RECURSIVE LtAt(_, _, _)
LtAt(a, b, i) ==
  IF i = 0 THEN FALSE
  ELSE IF a[i] # b[i] THEN a[i] < b[i]
  ELSE LtAt(a, b, i - 1)

Lt(a, b) == LtAt(a, b, Len(a))

\* a & ~3
AndNot3(a) == [a EXCEPT ![1] = a[1] - (a[1] % 4)]

\* an unsigned literal of w limbs written as decimal groups of three digits,
\* most significant group first: Dec(<<4, 294, 967, 295>>, W32) is 4294967295u
RECURSIVE DecAt(_, _, _)
DecAt(g, i, w) ==
  IF i = 0 THEN FromInt(0, w)
  ELSE Add(MulS(DecAt(g, i - 1, w), 1000), FromInt(g[i], w))

Dec(g, w) == DecAt(g, Len(g), w)

\* high and low 64-bit halves of a 128-bit product: p >> 64 and uint64_t(p)
Hi64(p) == SubSeq(p, W64 + 1, W128)
Lo64(p) == SubSeq(p, 1, W64)

\* truncating signed division by a positive constant (C++ int / int)
TruncDiv(v, c) == IF v >= 0 THEN v \div c ELSE -((-v) \div c)

\* date32_t { year, month, day }
date32_t(year, month, day) == [year |-> year, month |-> month, day |-> day]

\* the literals 2147483648, 3853261555ull, 3010298776ull and 2006057ull
TWO_31 == Dec(<<2, 147, 483, 648>>, W32)
\* mutation: two digits of the reciprocal transposed
CEN_RECIP_mut == Dec(<<3, 853, 216, 555>>, W64)
CEN_RECIP == Dec(<<3, 853, 261, 555>>, W64)
YRS_RECIP == Dec(<<3, 010, 298, 776>>, W64)
DAY_RECIP == Dec(<<2, 006, 057>>, W64)
\* the literal 2148345369u of to_rata_die
RD_SHIFT == Dec(<<2, 148, 345, 369>>, W32)

(***************************************************************************)
(* struct joffe                                                            *)
(***************************************************************************)

joffe_s == 82
\* mutation: a day shift one day short
joffe_K_mut == U32(719162 + 146097 * joffe_s + 305)
joffe_K == U32(719162 + 146097 * joffe_s + 306)
\* mutation: the year shift of the 307-day variant (400 * s + 1)
joffe_L_mut == U32(400 * joffe_s + 1)
joffe_L == U32(400 * joffe_s)
joffe_INVERSE_SHIFT_Y == U32(400 * 14700)
joffe_INVERSE_SHIFT_RD == Add(MulS(U32(146097), 14700), U32(719162 + 306))

\* mutation: the multiplier 2140 of the backward-counting 64-bit variant
ForwardMonthDay_mut(rem) ==
  LET N == rem * 2140 + 197913
      M == N \div 65536
      D == (N % 65536) \div 2141
      bump == IF rem >= 306 THEN 1 ELSE 0
  IN  [N |-> N, M |-> M, D |-> D, bump |-> bump,
       month |-> IF bump = 1 THEN M - 12 ELSE M, day |-> D + 1]

\* month and day from the March-based day of the year rem (Neri-Schneider
\* step of the forward-counting decoders), with the locals N, M, D and bump
ForwardMonthDay(rem) ==
  LET N == rem * 2141 + 197913
      M == N \div 65536
      D == (N % 65536) \div 2141
      bump == IF rem >= 306 THEN 1 ELSE 0
  IN  [N |-> N, M |-> M, D |-> D, bump |-> bump,
       month |-> IF bump = 1 THEN M - 12 ELSE M, day |-> D + 1]

\* mutation: the month left in the March-based numbering 3..14
joffe_to_date_mut(dayNumber) ==
  LET d0 == Add(FromInt(dayNumber, W32), joffe_K)
      qds == Add(MulS(d0, 4), U32(3))
      cen == DivS(qds, 146097)
      jul == Add(Sub(qds, AndNot3(cen)), MulS(cen, 4))
      yrs == DivS(jul, 1461)
      rem == ModS(jul, 1461) \div 4
      md == ForwardMonthDay(rem)
      year == ToInt(Add(Sub(yrs, joffe_L), U32(md.bump)))
  IN  date32_t(year, md.M, md.day)

joffe_to_date(dayNumber) ==
  LET d0 == Add(FromInt(dayNumber, W32), joffe_K)
      qds == Add(MulS(d0, 4), U32(3))
      cen == DivS(qds, 146097)
      jul == Add(Sub(qds, AndNot3(cen)), MulS(cen, 4))
      yrs == DivS(jul, 1461)
      rem == ModS(jul, 1461) \div 4
      md == ForwardMonthDay(rem)
      year == ToInt(Add(Sub(yrs, joffe_L), U32(md.bump)))
  IN  date32_t(year, md.month, md.day)

\* mutation: the multiplier 980
joffe_month_days_mut(month, phase) ==
  DivS(Add(MulS(U32(month), 980), FromInt(phase, W32)), 32)

\* uint32_t month_days = (979 * month + phase) / 32: month is a uint32_t, so
\* the int32_t phase is converted and the sum and the division are unsigned
joffe_month_days(month, phase) ==
  DivS(Add(MulS(U32(month), 979), FromInt(phase, W32)), 32)

joffe_to_rata_die(year, month, day) ==
  LET bump == IF month <= 2 THEN 1 ELSE 0
      yrs == Sub(Add(FromInt(year, W32), joffe_INVERSE_SHIFT_Y), U32(bump))
      cen == DivS(yrs, 100)
      phase == IF bump = 1 THEN 8829 ELSE -2919
      year_days == Add(Sub(Add(MulS(yrs, 365), DivS(yrs, 4)), cen),
                       DivS(cen, 4))
      month_days == joffe_month_days(month, phase)
  IN  ToInt(Sub(Add(Add(year_days, month_days), U32(day)),
                Add(joffe_INVERSE_SHIFT_RD, U32(1))))

(***************************************************************************)
(* struct benjoffe_article_2_l1                                            *)
(***************************************************************************)

\* mutation: two digits of the last day shift transposed
benjoffe_article_2_l1_OFFSETS_mut ==
  << 719468, -536040910, -1072801288, -1609561666,
     -2147206316, 1611000602, 1074240224, 537479864,
     0, -1469600, -2939200, -4408800,
     5878400, 4408800, 2939200, 1469600 >>

\* OFFSETS[16], indexed from 1: [1..8] day shifts, [9..16] year shifts
benjoffe_article_2_l1_OFFSETS ==
  << 719468, -536040910, -1072801288, -1609561666,
     -2147206316, 1611000602, 1074240224, 537479846,
     0, -1469600, -2939200, -4408800,
     5878400, 4408800, 2939200, 1469600 >>

benjoffe_article_2_l1_to_date(dayNumber) ==
  LET uday == FromInt(dayNumber, W32)
      bucket == uday[4] \div 32
      d_off == FromInt(benjoffe_article_2_l1_OFFSETS[bucket + 1], W32)
      y_off == FromInt(benjoffe_article_2_l1_OFFSETS[bucket + 9], W32)
      days == Add(FromInt(dayNumber, W32), d_off)
      qds == Add(MulS(days, 4), U32(3))
      cen == DivS(qds, 146097)
      jul == Add(Sub(qds, AndNot3(cen)), MulS(cen, 4))
      yrs == DivS(jul, 1461)
      rem == ModS(jul, 1461) \div 4
      md == ForwardMonthDay(rem)
      year == ToInt(Add(Sub(yrs, y_off), U32(md.bump)))
  IN  date32_t(year, md.month, md.day)

benjoffe_article_2_l1_to_rata_die(year, month, day) ==
  LET bump == IF month <= 2 THEN 1 ELSE 0
      yrs == Sub(FromInt(year + 5880000, W32), U32(bump))
      cen == DivS(yrs, 100)
      shift == IF bump = 1 THEN 8829 ELSE -2919
      year_days == Add(Sub(Add(MulS(yrs, 365), DivS(yrs, 4)), cen),
                       DivS(cen, 4))
      month_days == FromInt(TruncDiv(979 * month + shift, 32), W32)
  IN  ToInt(Sub(Add(Add(year_days, month_days), U32(day)),
                RD_SHIFT))

(***************************************************************************)
(* struct joffe_eras_bitapprox (4096 buckets of 2^20 days, 7 eras each)    *)
(***************************************************************************)

joffe_eras_bitapprox_K == U32((719162 + 306 - 3845) * 4 + 3)
\* mutation: the year shift of one era more
joffe_eras_bitapprox_L_mut == U32(14700 * 400)
joffe_eras_bitapprox_L == U32(14699 * 400)
joffe_eras_bitapprox_SHIFT_0 == 7 * 146097
joffe_eras_bitapprox_SHIFT_1 == 7 * 400

\* mutation: the first of January (rem = 306) left in the old year
joffe_eras_bitapprox_to_date_mut(dayNumber) ==
  LET d0 == Add(FromInt(dayNumber, W32), TWO_31)
      bucket == Shr(d0, 20)
      days == Sub(d0, MulS(bucket, joffe_eras_bitapprox_SHIFT_0))
      qds == Add(MulS(days, 4), joffe_eras_bitapprox_K)
      cen == DivS(qds, 146097)
      jul == Add(Sub(qds, AndNot3(cen)), MulS(cen, 4))
      yrs == DivS(jul, 1461)
      rem == ModS(jul, 1461) \div 4
      N == rem * 2141 + 197913
      M == N \div 65536
      D == (N % 65536) \div 2141
      bump == IF rem > 306 THEN 1 ELSE 0
      day == D + 1
      month == IF bump = 1 THEN M - 12 ELSE M
      year == ToInt(Sub(Add(Add(yrs, MulS(bucket, joffe_eras_bitapprox_SHIFT_1)),
                            U32(bump)), joffe_eras_bitapprox_L))
  IN  date32_t(year, month, day)

joffe_eras_bitapprox_to_date(dayNumber) ==
  LET d0 == Add(FromInt(dayNumber, W32), TWO_31)
      bucket == Shr(d0, 20)
      days == Sub(d0, MulS(bucket, joffe_eras_bitapprox_SHIFT_0))
      qds == Add(MulS(days, 4), joffe_eras_bitapprox_K)
      cen == DivS(qds, 146097)
      jul == Add(Sub(qds, AndNot3(cen)), MulS(cen, 4))
      yrs == DivS(jul, 1461)
      rem == ModS(jul, 1461) \div 4
      N == rem * 2141 + 197913
      M == N \div 65536
      D == (N % 65536) \div 2141
      bump == IF rem >= 306 THEN 1 ELSE 0
      day == D + 1
      month == IF bump = 1 THEN M - 12 ELSE M
      year == ToInt(Sub(Add(Add(yrs, MulS(bucket, joffe_eras_bitapprox_SHIFT_1)),
                            U32(bump)), joffe_eras_bitapprox_L))
  IN  date32_t(year, month, day)

(***************************************************************************)
(* struct joffe_fast64bit (backward counting, 128-bit multiplies)          *)
(***************************************************************************)

joffe_fast64bit_S == 14704
\* static uint32_t constexpr: both are computed and stored modulo 2^32
joffe_fast64bit_D_SHIFT == Sub(MulS(U32(146097), joffe_fast64bit_S), U32(719469))
joffe_fast64bit_Y_SHIFT == Sub(MulS(U32(400), joffe_fast64bit_S), U32(1))

joffe_fast64bit_C1 == Dec(<<505, 054, 698, 555, 331>>, W64)
joffe_fast64bit_C2 == Dec(<<50, 504, 432, 782, 230, 121>>, W64)
joffe_fast64bit_C3 == Dec(<<8, 619, 973, 866, 219, 416>>, W64)

joffe_fast64bit_YPT_MUL == U64(782336)

\* mutation: January (M = 13) not bumped on the builds that bump late
joffe_fast64bit_to_date_mut(dayNumber, IS_ARM) ==
  LET \* uint32_t - int32_t is a 32-bit subtraction, then widened
      rev == Resize(Sub(joffe_fast64bit_D_SHIFT, FromInt(dayNumber, W32)), W64)
      cen == Hi64(Mul(joffe_fast64bit_C1, rev, W128))
      jul == Add(Sub(rev, DivS(cen, 4)), cen)
      num == Mul(joffe_fast64bit_C2, jul, W128)
      yrs == Resize(Sub(Resize(joffe_fast64bit_Y_SHIFT, W64), Hi64(num)), W32)
      low == Lo64(num)
      ypt == ToNat(Resize(Hi64(Mul(joffe_fast64bit_YPT_MUL, low, W128)), W32))
      early_bump == IF ypt < 126464 THEN 1 ELSE 0
      phase == IF IS_ARM THEN 977920
               ELSE IF early_bump = 1 THEN 191488 ELSE 977920
      N == (yrs[1] % 4) * 512 + phase - ypt
      M == N \div 65536
      D == ToNat(Resize(Hi64(Mul(joffe_fast64bit_C3, U64(N % 65536), W128)), W32))
      bump == IF IS_ARM THEN (IF M > 13 THEN 1 ELSE 0) ELSE early_bump
      month == IF IS_ARM THEN (IF bump = 1 THEN M - 12 ELSE M) ELSE M
      day == D + 1
      year == ToInt(Add(yrs, U32(bump)))
  IN  date32_t(year, month, day)

joffe_fast64bit_to_date(dayNumber, IS_ARM) ==
  LET \* uint32_t - int32_t is a 32-bit subtraction, then widened
      rev == Resize(Sub(joffe_fast64bit_D_SHIFT, FromInt(dayNumber, W32)), W64)
      cen == Hi64(Mul(joffe_fast64bit_C1, rev, W128))
      jul == Add(Sub(rev, DivS(cen, 4)), cen)
      num == Mul(joffe_fast64bit_C2, jul, W128)
      yrs == Resize(Sub(Resize(joffe_fast64bit_Y_SHIFT, W64), Hi64(num)), W32)
      low == Lo64(num)
      ypt == ToNat(Resize(Hi64(Mul(joffe_fast64bit_YPT_MUL, low, W128)), W32))
      early_bump == IF ypt < 126464 THEN 1 ELSE 0
      phase == IF IS_ARM THEN 977920
               ELSE IF early_bump = 1 THEN 191488 ELSE 977920
      N == (yrs[1] % 4) * 512 + phase - ypt
      M == N \div 65536
      D == ToNat(Resize(Hi64(Mul(joffe_fast64bit_C3, U64(N % 65536), W128)), W32))
      bump == IF IS_ARM THEN (IF M > 12 THEN 1 ELSE 0) ELSE early_bump
      month == IF IS_ARM THEN (IF bump = 1 THEN M - 12 ELSE M) ELSE M
      day == D + 1
      year == ToInt(Add(yrs, U32(bump)))
  IN  date32_t(year, month, day)

(***************************************************************************)
(* struct benjoffe_fast32_wide (backward counting, 2^17-day buckets)       *)
(***************************************************************************)

benjoffe_fast32_wide_K == U32(146097 * 5 - 719162 - 307 + 3845)
benjoffe_fast32_wide_L == U32(14694 * 400 + 1)
benjoffe_fast32_wide_BUCK_Y == 400
benjoffe_fast32_wide_BUCK_D == 146097

\* uint32_t const cen = rev * 3853261555ull >> 47;
BackwardCentury(rev) ==
  Resize(Shr(Mul(Resize(rev, W64), CEN_RECIP, W64), 47), W32)

\* mutation: a leap century every second century
JulianMap_mut(rev, cen) == Sub(Add(rev, cen), DivS(cen, 2))

\* uint32_t const jul = rev + cen - cen / 4;
JulianMap(rev, cen) == Sub(Add(rev, cen), DivS(cen, 4))

\* mutation: the first of March (rem = 60) taken for a day of February on
\* the builds that bump early
BackwardMonthDay_mut(rem, IS_ARM) ==
  LET early_bump == IF Lt(rem, U32(61)) THEN 1 ELSE 0
      shift == IF IS_ARM THEN 979360
               ELSE IF early_bump = 1 THEN 192928 ELSE 979360
      N == Sub(U32(shift), MulS(rem, 2141))
      M == ToNat(Shr(N, 16))
      D == ToNat(Resize(Shr(Mul(U64(ModS(N, 65536)),
                                DAY_RECIP, W64), 32), W32))
      bump == IF IS_ARM THEN (IF M > 12 THEN 1 ELSE 0) ELSE early_bump
      month == IF IS_ARM THEN (IF bump = 1 THEN M - 12 ELSE M) ELSE M
  IN  [bump |-> bump, month |-> month, day |-> D + 1]

\* month and day from the backward day-of-year rem (Neri-Schneider step of
\* the backward-counting 32-bit decoders); rem is a uint32_t
BackwardMonthDay(rem, IS_ARM) ==
  LET early_bump == IF Lt(rem, U32(60)) THEN 1 ELSE 0
      shift == IF IS_ARM THEN 979360
               ELSE IF early_bump = 1 THEN 192928 ELSE 979360
      N == Sub(U32(shift), MulS(rem, 2141))
      M == ToNat(Shr(N, 16))
      D == ToNat(Resize(Shr(Mul(U64(ModS(N, 65536)),
                                DAY_RECIP, W64), 32), W32))
      bump == IF IS_ARM THEN (IF M > 12 THEN 1 ELSE 0) ELSE early_bump
      month == IF IS_ARM THEN (IF bump = 1 THEN M - 12 ELSE M) ELSE M
  IN  [bump |-> bump, month |-> month, day |-> D + 1]

benjoffe_fast32_wide_to_date(dayNumber, IS_ARM) ==
  LET d0 == Add(FromInt(dayNumber, W32), TWO_31)
      bucket == ToNat(Shr(d0, 17))
      rev == Add(Sub(MulS(U32(bucket), benjoffe_fast32_wide_BUCK_D), d0),
                 benjoffe_fast32_wide_K)
      cen == BackwardCentury(rev)
      jul == JulianMap(rev, cen)
      yrs == Resize(Shr(Mul(Resize(jul, W64),
                            YRS_RECIP, W64), 40), W32)
      rem == Sub(jul, DivS(MulS(yrs, 1461), 4))
      md == BackwardMonthDay(rem, IS_ARM)
      year == ToInt(Add(Sub(Sub(MulS(U32(bucket), benjoffe_fast32_wide_BUCK_Y),
                                benjoffe_fast32_wide_L), yrs), U32(md.bump)))
  IN  date32_t(year, md.month, md.day)

(***************************************************************************)
(* struct benjoffe_fast32 (backward counting)                              *)
(***************************************************************************)

\* mutation: one era less, which no longer reaches the year 32767
benjoffe_fast32_ERAS_mut == 82 - 1
benjoffe_fast32_ERAS == 82
\* mutation: the 306-day shift of the forward-counting variants
benjoffe_fast32_K_mut == U32(146097 * benjoffe_fast32_ERAS - 719162 - 306)
benjoffe_fast32_K == U32(146097 * benjoffe_fast32_ERAS - 719162 - 307)
benjoffe_fast32_L == U32(400 * benjoffe_fast32_ERAS - 1)

benjoffe_fast32_to_date(dayNumber, IS_ARM) ==
  LET rev == Sub(benjoffe_fast32_K, FromInt(dayNumber, W32))
      cen == BackwardCentury(rev)
      jul == JulianMap(rev, cen)
      yrs == Resize(Shr(Mul(Resize(jul, W64),
                            YRS_RECIP, W64), 40), W32)
      rem == Sub(jul, DivS(MulS(yrs, 1461), 4))
      md == BackwardMonthDay(rem, IS_ARM)
      year == ToInt(Add(Sub(benjoffe_fast32_L, yrs), U32(md.bump)))
  IN  date32_t(year, md.month, md.day)

\* uint32_t month_days = (979 * int32_t(month) + shift) / 32: the sum and the
\* division are signed (truncating), the quotient is then converted
benjoffe_fast32_month_days(month, shift) ==
  FromInt(TruncDiv(979 * month + shift, 32), W32)

\* mutation: February not moved to the end of the previous year
benjoffe_fast32_to_rata_die_mut(year, month, day) ==
  LET bump == IF month < 2 THEN 1 ELSE 0
      yrs == Sub(FromInt(year + 5880000, W32), U32(bump))
      cen == DivS(yrs, 100)
      shift == IF bump = 1 THEN 8829 ELSE -2919
      year_days == Add(Sub(Add(MulS(yrs, 365), DivS(yrs, 4)), cen),
                       DivS(cen, 4))
      month_days == FromInt(TruncDiv(979 * month + shift, 32), W32)
  IN  ToInt(Sub(Add(Add(year_days, month_days), U32(day)), RD_SHIFT))

benjoffe_fast32_to_rata_die(year, month, day) ==
  LET bump == IF month <= 2 THEN 1 ELSE 0
      yrs == Sub(FromInt(year + 5880000, W32), U32(bump))
      cen == DivS(yrs, 100)
      shift == IF bump = 1 THEN 8829 ELSE -2919
      year_days == Add(Sub(Add(MulS(yrs, 365), DivS(yrs, 4)), cen),
                       DivS(cen, 4))
      month_days == benjoffe_fast32_month_days(month, shift)
  IN  ToInt(Sub(Add(Add(year_days, month_days), U32(day)),
                RD_SHIFT))

(***************************************************************************)
(* struct benjoffe_ordinal_alternative (year/ordinal/leap to month/day)    *)
(***************************************************************************)

\* SCALE is 1 when IS_ARM and 2 otherwise
benjoffe_ordinal_alternative_SCALE(IS_ARM) == IF IS_ARM THEN 1 ELSE 2
benjoffe_ordinal_alternative_STEP(SCALE) == 1071 * SCALE
benjoffe_ordinal_alternative_DIVISOR(SCALE) == SCALE * 2 ^ 15
benjoffe_ordinal_alternative_SHIFT_0(SCALE) ==
  benjoffe_ordinal_alternative_DIVISOR(SCALE) - 439 * SCALE
\* mutation: the shift of the leap years not advanced by a day
benjoffe_ordinal_alternative_SHIFT_1_mut(SCALE) ==
  benjoffe_ordinal_alternative_SHIFT_0(SCALE)
benjoffe_ordinal_alternative_SHIFT_1(SCALE) ==
  benjoffe_ordinal_alternative_SHIFT_0(SCALE)
    + benjoffe_ordinal_alternative_STEP(SCALE)
benjoffe_ordinal_alternative_SHIFT_2(SCALE) ==
  benjoffe_ordinal_alternative_SHIFT_1(SCALE)
    + benjoffe_ordinal_alternative_STEP(SCALE)

\* the part of to_date after the year, the ordinal and the leap flag are
\* known; ordinal is at most 366, so every local stays below 2^31
OrdinalMonthDay(ordinal, leap, SCALE) ==
  LET jan_feb_len == 59 + (IF leap THEN 1 ELSE 0)
      shift == IF ordinal <= jan_feb_len
               THEN benjoffe_ordinal_alternative_SHIFT_0(SCALE)
               ELSE IF leap THEN benjoffe_ordinal_alternative_SHIFT_1(SCALE)
               ELSE benjoffe_ordinal_alternative_SHIFT_2(SCALE)
      num == ordinal * benjoffe_ordinal_alternative_STEP(SCALE) + shift
      month == num \div benjoffe_ordinal_alternative_DIVISOR(SCALE)
      day == (num % benjoffe_ordinal_alternative_DIVISOR(SCALE))
               \div benjoffe_ordinal_alternative_STEP(SCALE) + 1
  IN  [num |-> num, month |-> month, day |-> day]

(***************************************************************************)
(* struct boost_joffe_1 (boost's algorithm with the Julian map); month and *)
(* day are kept as uint32_t because they are not bounded once 4 * c + 3    *)
(* wraps                                                                   *)
(***************************************************************************)

boost_joffe_1_ajustment == 2472632

boost_joffe_1_to_date(dayNumber) ==
  LET a == Add(FromInt(dayNumber, W32), U32(boost_joffe_1_ajustment))
      b == DivS(Add(MulS(a, 4), U32(3)), 146097)
      c == Sub(Add(a, b), DivS(b, 4))
      d == DivS(Add(MulS(c, 4), U32(3)), 1461)
      e == Sub(c, DivS(MulS(d, 1461), 4))
      m == DivS(Add(MulS(e, 5), U32(2)), 153)
      day == Add(Sub(e, DivS(Add(MulS(m, 153), U32(2)), 5)), U32(1))
      month == Sub(Add(m, U32(3)), MulS(DivS(m, 10), 12))
      year == ToInt(Add(Sub(d, U32(4800)), DivS(m, 10)))
  IN  date32_t(year, month, day)

\* static_cast<unsigned short>(v) of a uint32_t, as an integer
UnsignedShort(v) == v[1] + 256 * v[2]

\* year is an int32_t, month and day are uint32_t; a, y and m are unsigned
\* short, promoted to int where they are used; the sum d is formed in
\* unsigned int because day is a uint32_t
boost_joffe_1_to_rata_die(year, month, day) ==
  LET a == UnsignedShort(DivS(Sub(U32(14), month), 12))
      y == UnsignedShort(FromInt(year + 4800 - a, W32))
      m == UnsignedShort(Sub(Add(month, U32(12 * a)), U32(3)))
      d == Sub(Add(Sub(Add(Add(Add(day, U32((153 * m + 2) \div 5)),
                               U32(365 * y)), U32(y \div 4)),
                       U32(y \div 100)), U32(y \div 400)), U32(1))
  IN  ToInt(Sub(d, U32(boost_joffe_1_ajustment)))

(***************************************************************************)
(* 64-bit decoders of the range test: joffe_backwards_64_to_date and       *)
(* neri_schneider_to_date.  An int64_t (day number, year) is held as its   *)
(* 64-bit two's complement pattern.                                        *)
(***************************************************************************)

\* date64_t { year, month, day }
date64_t(year, month, day) == [year |-> year, month |-> month, day |-> day]

\* mutation: one era less
joffe_backwards_64_ERAS_mut == Dec(<<4, 726, 498, 269>>, W64)
joffe_backwards_64_ERAS == Dec(<<4, 726, 498, 270>>, W64)
joffe_backwards_64_D_SHIFT ==
  Sub(Mul(U64(146097), joffe_backwards_64_ERAS, W64), U64(719469))
joffe_backwards_64_Y_SHIFT == Sub(MulS(joffe_backwards_64_ERAS, 400), U64(1))

joffe_backwards_64_SCALE(IS_ARM) == IF IS_ARM THEN 1 ELSE 32
joffe_backwards_64_SHIFT_1(IS_ARM) == 5980 * joffe_backwards_64_SCALE(IS_ARM)
joffe_backwards_64_SHIFT_0(IS_ARM) == 30556 * joffe_backwards_64_SCALE(IS_ARM)

joffe_backwards_64_C1 == Dec(<<505, 054, 698, 555, 331>>, W64)
joffe_backwards_64_C2 == Dec(<<50, 504, 432, 782, 230, 121>>, W64)
\* 8619973866219416ull * 32 / SCALE
joffe_backwards_64_C3(IS_ARM) ==
  DivS(MulS(Dec(<<8, 619, 973, 866, 219, 416>>, W64), 32),
       joffe_backwards_64_SCALE(IS_ARM))

joffe_backwards_64_to_date(dayNumber, IS_ARM) ==
  LET SCALE == joffe_backwards_64_SCALE(IS_ARM)
      rev == Sub(joffe_backwards_64_D_SHIFT, dayNumber)
      cen == Hi64(Mul(joffe_backwards_64_C1, rev, W128))
      jul == Add(Sub(rev, DivS(cen, 4)), cen)
      num == Mul(joffe_backwards_64_C2, jul, W128)
      yrs == Sub(joffe_backwards_64_Y_SHIFT, Hi64(num))
      low == Lo64(num)
      ypt == ToNat(Resize(Hi64(Mul(U64(24451 * SCALE), low, W128)), W32))
      early_bump == IF ypt < 3952 * SCALE THEN 1 ELSE 0
      phase == IF IS_ARM THEN joffe_backwards_64_SHIFT_0(IS_ARM)
               ELSE IF early_bump = 1 THEN joffe_backwards_64_SHIFT_1(IS_ARM)
               ELSE joffe_backwards_64_SHIFT_0(IS_ARM)
      N == (yrs[1] % 4) * (16 * SCALE) + phase - ypt
      M == N \div (2048 * SCALE)
      D == ToNat(Resize(Hi64(Mul(joffe_backwards_64_C3(IS_ARM),
                                 U64(N % (2048 * SCALE)), W128)), W32))
      bump == IF IS_ARM THEN (IF M > 12 THEN 1 ELSE 0) ELSE early_bump
      month == IF IS_ARM THEN (IF bump = 1 THEN M - 12 ELSE M) ELSE M
      day == D + 1
      year == Add(yrs, U64(bump))
  IN  date64_t(year, month, day)

\* (1ull << 61) / 146097ull
neri_schneider_s ==
  DivS(Dec(<<2, 305, 843, 009, 213, 693, 952>>, W64), 146097)
neri_schneider_K == Add(U64(719468), Mul(U64(146097), neri_schneider_s, W64))
neri_schneider_L == MulS(neri_schneider_s, 400)

neri_schneider_to_date(N_U) ==
  LET N == Add(N_U, neri_schneider_K)
      N_1 == Add(MulS(N, 4), U64(3))
      C == DivS(N_1, 146097)
      N_C == ModS(N_1, 146097) \div 4
      N_2 == 4 * N_C + 3
      P_2 == Mul(U64(2939745), U64(N_2), W64)
      Z == Shr(P_2, 32)
      N_Y == ToNat(DivS(Resize(P_2, W32), 2939745)) \div 4
      Y == Add(MulS(C, 100), Z)
      N_3 == 2141 * N_Y + 197913
      M == N_3 \div 65536
      D == (N_3 % 65536) \div 2141
      J == IF N_Y >= 306 THEN 1 ELSE 0
      Y_G == Add(Sub(Y, neri_schneider_L), U64(J))
      M_G == IF J = 1 THEN M - 12 ELSE M
      D_G == D + 1
  IN  date64_t(Y_G, M_G, D_G)

(***************************************************************************)
(* Ordinal dates: struct ordinal_time_rs and the baseline ordinal_test      *)
(***************************************************************************)

\* ordinal32_t { year, ordinal, leap }: ordinal is the 1-indexed day of year
ordinal32_t(year, ordinal, leap) ==
  [year |-> year, ordinal |-> ordinal, leap |-> leap]

ordinal_time_rs_S == 2500
ordinal_time_rs_K == U32(719468 + 146097 * ordinal_time_rs_S)
\* mutation: the year shift of the backward-counting decoders
ordinal_time_rs_L_mut == U32(400 * ordinal_time_rs_S - 1)
ordinal_time_rs_L == U32(400 * ordinal_time_rs_S)

\* the literal 2939745
YEAR_RECIP == 2939745

\* mutation: the century mask 7, which takes every multiple of 200 for a
\* leap year
ordinal_time_rs_to_date_mut(dayNumber) ==
  LET n == Add(FromInt(dayNumber, W32), ordinal_time_rs_K)
      n_1 == Add(MulS(n, 4), U32(3))
      c == DivS(n_1, 146097)
      n_c == ModS(n_1, 146097) \div 4
      n_2 == 4 * n_c + 3
      p_2 == Mul(U64(YEAR_RECIP), U64(n_2), W64)
      z == Resize(Shr(p_2, 32), W32)
      n_y == ToNat(DivS(Resize(p_2, W32), YEAR_RECIP)) \div 4
      y == Add(MulS(c, 100), z)
      j == n_y >= 306
      y_g == ToInt(Add(Sub(y, ordinal_time_rs_L), U32(IF j THEN 1 ELSE 0)))
      d == IF y_g % 100 = 0 THEN 7 ELSE 3
      is_leap_year == y_g % (d + 1) = 0
      ordinal == IF j THEN n_y - 305
                 ELSE n_y + 60 + (IF is_leap_year THEN 1 ELSE 0)
  IN  ordinal32_t(y_g, ordinal, is_leap_year)

ordinal_time_rs_to_date(dayNumber) ==
  LET n == Add(FromInt(dayNumber, W32), ordinal_time_rs_K)
      n_1 == Add(MulS(n, 4), U32(3))
      c == DivS(n_1, 146097)
      n_c == ModS(n_1, 146097) \div 4
      n_2 == 4 * n_c + 3
      p_2 == Mul(U64(YEAR_RECIP), U64(n_2), W64)
      z == Resize(Shr(p_2, 32), W32)
      n_y == ToNat(DivS(Resize(p_2, W32), YEAR_RECIP)) \div 4
      y == Add(MulS(c, 100), z)
      j == n_y >= 306
      y_g == ToInt(Add(Sub(y, ordinal_time_rs_L), U32(IF j THEN 1 ELSE 0)))
      \* (y_g & d) == 0 with d = 15 or 3: y_g is a multiple of d + 1
      d == IF y_g % 100 = 0 THEN 15 ELSE 3
      is_leap_year == y_g % (d + 1) = 0
      ordinal == IF j THEN n_y - 305
                 ELSE n_y + 60 + (IF is_leap_year THEN 1 ELSE 0)
  IN  ordinal32_t(y_g, ordinal, is_leap_year)

(***************************************************************************)
(* Leap-year oracles                                                       *)
(***************************************************************************)

\* number of limbs of uint16_t
W16 == 2

isleap16_textbook(year) ==
  year % 4 = 0 /\ (year % 100 # 0 \/ year % 400 = 0)

isleap32_textbook(year) ==
  year % 4 = 0 /\ (year % 100 # 0 \/ year % 400 = 0)

\* mutation: the reciprocal without its + 1
isleap32_CEN_MUL_mut == U32(42949672)
\* uint32_t((1ull << 32) / 100) + 1 = 42949673
isleap32_CEN_MUL == U32(42949673)
isleap32_CEN_CUTOFF == MulS(isleap32_CEN_MUL, 4)
\* mutation: the plain signed-to-unsigned shift 2^31, not a multiple of 100
isleap32_CEN_BIAS_mut == TWO_31
isleap32_CEN_BIAS == MulS(DivS(isleap32_CEN_MUL, 2), 100)

\* uint32_t(year + CEN_BIAS)
isleap32_biased(year) == Add(FromInt(year, W32), isleap32_CEN_BIAS)

isleap32_cen_check(year) ==
  LET low == Mul(isleap32_biased(year), isleap32_CEN_MUL, W32)
  IN  Lt(low, isleap32_CEN_CUTOFF)

isleap32_benjoffe(year) ==
  year % (IF isleap32_cen_check(year) THEN 16 ELSE 4) = 0

isleap16_CEN_MUL == Resize(U32(23593), W16)
isleap16_CEN_CUTOFF == Resize(U32(2622), W16)
\* mutation: the bias not rounded down to a multiple of 100
isleap16_CEN_BIAS_mut == 2 ^ 15
\* (1ull << 15) / 100 * 100
isleap16_CEN_BIAS == (32768 \div 100) * 100

\* uint16_t(year + CEN_BIAS): an int sum, then truncated to uint16_t
isleap16_biased(year) == Resize(FromInt(year + isleap16_CEN_BIAS, W32), W16)

isleap16_cen_check(year) ==
  LET \* the uint16_t product is an int product, truncated to uint16_t
      low == Mul(isleap16_biased(year), isleap16_CEN_MUL, W16)
  IN  Lt(low, isleap16_CEN_CUTOFF)

isleap16_benjoffe(year) ==
  year % (IF isleap16_cen_check(year) THEN 16 ELSE 4) = 0

\* An int64_t is held as its 64-bit two's complement pattern.
\* |year| as an unsigned value
Abs64(year) == IF year[W64] >= 128 THEN Sub(U64(0), year) ELSE year

\* year % c == 0 for int64_t year (the remainder of the truncating division
\* is zero exactly when c divides the magnitude)
Divides64(c, year) == ModS(Abs64(year), c) = 0

isleap64_cassioneri(year) ==
  LET is_cen == Divides64(100, year)
  IN  year[1] % (IF is_cen THEN 16 ELSE 4) = 0

isleap64_CEN_MUL == Dec(<<1, 106, 804, 644, 422, 573, 097>>, W64)
isleap64_CEN_CUTOFF == Dec(<<737, 869, 762, 948, 382, 065>>, W64)
\* mutation: the bias not rounded down to a multiple of 100
isleap64_CEN_BIAS_mut == Dec(<<9, 223, 372, 036, 854, 775, 808>>, W64)
\* (1ull << 63) / 100 * 100
isleap64_CEN_BIAS == MulS(DivS(Dec(<<9, 223, 372, 036, 854, 775, 808>>, W64), 100), 100)

\* uint64_t(year + CEN_BIAS)
isleap64_biased(year) == Add(year, isleap64_CEN_BIAS)

isleap64_cen_check(year) ==
  LET low == Mul(isleap64_biased(year), isleap64_CEN_MUL, W64)
  IN  Lt(low, isleap64_CEN_CUTOFF)

isleap64_benjoffe(year) ==
  year[1] % (IF isleap64_cen_check(year) THEN 16 ELSE 4) = 0

(***************************************************************************)
(* The proleptic Gregorian calendar (the yardstick of the properties)      *)
(***************************************************************************)

IsLeapYear(y) == y % 4 = 0 /\ (y % 100 # 0 \/ y % 400 = 0)

DaysInMonth(y, m) ==
  IF m = 2 THEN (IF IsLeapYear(y) THEN 29 ELSE 28)
  ELSE IF m \in {4, 6, 9, 11} THEN 30 ELSE 31

IsValidDate(y, m, d) == m \in 1..12 /\ d >= 1 /\ d <= DaysInMonth(y, m)

\* number of days of the months before month m in year y
RECURSIVE DaysBeforeMonth(_, _)
DaysBeforeMonth(y, m) ==
  IF m = 1 THEN 0 ELSE DaysBeforeMonth(y, m - 1) + DaysInMonth(y, m - 1)

\* number of leap years in the years 1..y of a 400-year cycle, 0 <= y <= 400
LeapsUpTo(y) == (y \div 4) - (y \div 100) + (y \div 400)

\* days from 2000-01-01 to the first of January of year y, split as
\* 146097 * (whole 400-year cycles) + days inside the cycle
CycleOf(y) == (y - 2001) \div 400
YearInCycle(y) == (y - 2001) % 400
DaysInCycleBefore(y) == 366 + 365 * YearInCycle(y) + LeapsUpTo(YearInCycle(y))

\* 2000-01-01 is day 10957: 30 years of 365 days and 7 leap days after
\* 1970-01-01
DAY_2000 == 30 * 365 + 7

\* a date is representable when its day number is a signed 32-bit value
\* (-5877641-06-23 is day -2^31, 5881580-07-11 is day 2^31 - 1)
DateLeq(y1, m1, d1, y2, m2, d2) ==
  y1 < y2 \/ (y1 = y2 /\ (m1 < m2 \/ (m1 = m2 /\ d1 <= d2)))

FitsInt32(y, m, d) ==
  /\ DateLeq(-5877641, 6, 23, y, m, d)
  /\ DateLeq(y, m, d, 5881580, 7, 11)

\* day number of a representable date; the sum is arranged so that every
\* intermediate stays inside the signed 32-bit range
DaysFromCivil(y, m, d) ==
  LET inside == DaysInCycleBefore(y) + DaysBeforeMonth(y, m) + (d - 1)
                  + DAY_2000
  IN  IF CycleOf(y) < 0
      THEN 146097 * (CycleOf(y) + 1) + (inside - 146097)
      ELSE 146097 * CycleOf(y) + inside

\* the date of day number n: the only valid date with that day number
CivilFromDays(n) ==
  LET c == n \div 146097
      z == (n % 146097) - DAY_2000 - 366
      cyc == IF z < 0 THEN c - 1 ELSE c
      r == z % 146097
      \* r: days since the first of January of the first year of the cycle
      yic0 == r \div 365
      yic == IF 365 * yic0 + LeapsUpTo(yic0) > r THEN yic0 - 1 ELSE yic0
      y == 2001 + 400 * cyc + yic
      doy == r - (365 * yic + LeapsUpTo(yic))
      m == CHOOSE mm \in 1..12 :
             /\ DaysBeforeMonth(y, mm) <= doy
             /\ doy < DaysBeforeMonth(y, mm) + DaysInMonth(y, mm)
  IN  date32_t(y, m, doy - DaysBeforeMonth(y, m) + 1)

(***************************************************************************)
(* struct ordinal_test: the ordinal date derived from a year-month-day      *)
(* codec known to be accurate                                              *)
(***************************************************************************)

\* benjoffe_fast64: the accurate year-month-day codec the baseline calls
benjoffe_fast64_to_date(dayNumber) == CivilFromDays(dayNumber)
benjoffe_fast64_to_rata_die(year, month, day) == DaysFromCivil(year, month, day)

ordinal_test_to_date(dayNumber) ==
  LET ymd == benjoffe_fast64_to_date(dayNumber)
      year == ymd.year
      rd_y0 == benjoffe_fast64_to_rata_die(year, 1, 1)
      rd_y1 == benjoffe_fast64_to_rata_die(year + 1, 1, 1)
      ordinal == (dayNumber - rd_y0) + 1
      leap == (rd_y1 - rd_y0) = 366
  IN  ordinal32_t(year, ordinal, leap)

(***************************************************************************)
(* State: one run of a driver that feeds one input to the codecs           *)
(***************************************************************************)

VARIABLES
  is_arm,     \* the build: TRUE when IS_ARM is 1
  run,        \* "decode_first" (the input is a day number) or
              \* "encode_first" (the input is a date)
  pc,         \* number of calls of the schedule already made
  dayNumber,  \* the input of a decode_first run
  ymd,        \* the input of an encode_first run
  date,       \* date[a]: the date32_t returned by a's to_date
  rata_die,   \* rata_die[a]: the int32_t returned by a's to_rata_die
  width,      \* leap-year search: width of the year type (16, 32, 64)
  year,       \* leap-year search: the year under test
  ref,        \* leap-year search: result of the reference function
  test,       \* leap-year search: result of the function under test
  biased,     \* leap-year search: year + CEN_BIAS cast to the unsigned type
  cen_check,  \* leap-year search: cen_check of the function under test
  dir,        \* run_search: direction of the search (1 up, -1 down)
  passCount,  \* run_search: number of years on which ref and test agreed
  hasError,   \* run_search: a mismatch has been found
  arg,        \* step run: the value the step starts from (rem, month, ...)
  res         \* step and call runs: res[s] is what step or call s produced

vars == << is_arm, run, pc, dayNumber, ymd, date, rata_die,
           width, year, ref, test, biased, cen_check,
           dir, passCount, hasError, arg, res >>

codec_vars == << is_arm, run, pc, dayNumber, ymd, date, rata_die >>
leap_vars == << width, year, ref, test, biased, cen_check,
                dir, passCount, hasError >>

step_vars == << arg, res >>

\* nothing has been produced yet
NoRes == [s \in {} |-> 0]
\* no step run is under way
NoStep == arg = 0 /\ res = NoRes

\* no leap-year search is under way
NoSearch ==
  /\ width = 0 /\ year = 0 /\ ref = FALSE /\ test = FALSE
  /\ biased = << >> /\ cen_check = FALSE
  /\ dir = 0 /\ passCount = 0 /\ hasError = FALSE

Decoders == {"joffe", "l1", "fast64bit", "wide", "fast32", "bitapprox"}
Encoders == {"joffe", "l1", "fast32"}

NoDate == date32_t(0, 0, 0)

\* calls of a run, in order: a decode_first run decodes the input with every
\* decoder and encodes each result back; an encode_first run encodes the
\* input with every encoder and decodes each result back
Schedule(r) ==
  IF r = "decode_first"
  THEN << <<"to_date", "joffe">>, <<"to_date", "l1">>,
          <<"to_date", "fast64bit">>, <<"to_date", "wide">>,
          <<"to_date", "fast32">>, <<"to_date", "bitapprox">>,
          <<"to_rata_die", "joffe">>, <<"to_rata_die", "l1">>,
          <<"to_rata_die", "fast32">> >>
  ELSE << <<"to_rata_die", "joffe">>, <<"to_rata_die", "l1">>,
          <<"to_rata_die", "fast32">>,
          <<"to_date", "joffe">>, <<"to_date", "l1">>,
          <<"to_date", "fast32">> >>

\* the call f of algorithm a is the next one / has been made
IsNext(f, a) == pc < Len(Schedule(run)) /\ Schedule(run)[pc + 1] = <<f, a>>
Called(f, a) == \E i \in 1..pc : Schedule(run)[i] = <<f, a>>

\* argument of a's to_date: the input, or what a's to_rata_die returned
DecodeArg(a) == IF run = "decode_first" THEN dayNumber ELSE rata_die[a]
\* argument of a's to_rata_die: the input, or what a's to_date returned
EncodeArg(a) == IF run = "encode_first" THEN ymd ELSE date[a]

(***************************************************************************)
(* Inputs                                                                  *)
(***************************************************************************)

INT32_MIN == -2147483647 - 1
INT32_MAX == 2147483647

\* half-width of the window of day numbers taken around each anchor
Window == 2
\* the strided sample of the signed 32-bit range: k * Stride, |k| <= StrideCount
Stride == 71000003
StrideCount == 29
\* the strided sample of the years -32767..32767 (about a thousand years
\* and a season apart): k * ChronoStride, |k| <= ChronoCount
ChronoStride == 365337
ChronoCount == 34
\* half-width of the window of 64-bit years taken around each anchor; 200
\* makes every window hold all residues modulo 400
Window64 == 200
\* number of centuries taken at each end of the 32-bit range and around 0
CenturyCount == 40

\* day numbers around which the decoders change regime: the epoch, the
\* buckets of benjoffe_article_2_l1 (multiples of 2^29), the first buckets of
\* benjoffe_fast32_wide (multiples of 2^17 above -2^31), the ends of the
\* domains of joffe and benjoffe_fast32, 2000-03-01, the first and the last
\* day of the years -32767 and 32767, buckets of joffe_eras_bitapprox
\* (multiples of 2^20)
DayAnchors ==
  { 0, 11017,
    -1610612736, -1073741824, -536870912, 536870912, 1073741824, 1610612736,
    -2147476477, -2147468787, -2147352576, -2147322690, -2146435072,
    -2146446108, -2146304000,
    -12699422, 1058484087, 1061020353,
    -1062459328, 11260485,
    -12687428, 11248737,
    -1048576, 1048576, 2146435072 }

DayInputs ==
  UNION { {a + k : k \in -Window..Window} : a \in DayAnchors }
    \cup { INT32_MIN + k : k \in 0..(2 * Window) }
    \cup { INT32_MAX - k : k \in 0..(2 * Window) }
    \cup { k * Stride : k \in -StrideCount..StrideCount }
    \cup { k * ChronoStride : k \in -ChronoCount..ChronoCount }

DateYears ==
  { -5877641, -5877640, -32800, -32799, -32768, -400, -100, -4, -1, 0, 1, 4,
    100, 400, 1900, 1969, 1970, 2000, 2024, 2100, 32767,
    2900000, 2900001, 2906945, 5881579, 5881580 }

\* the first and the last day of every month, and the 28th of February, of
\* the years above, as far as the day number fits in 32 bits
DateInputs ==
  { date32_t(y, m, d) : y \in DateYears, m \in 1..12, d \in {1, 28, 29, 30, 31} }

ValidDateInputs ==
  { t \in DateInputs :
      /\ t.day \in {1, 28, DaysInMonth(t.year, t.month)}
      /\ t.day <= DaysInMonth(t.year, t.month)
      /\ FitsInt32(t.year, t.month, t.day) }

\* years that start a 4-year, a 100-year or a 400-year cycle: around 0 and
\* at both ends of the domain of joffe
CycleYears ==
  UNION { { 4 * k, 100 * k, 400 * k, -32800 + 4 * k, 2900000 - 400 * k,
            2900000 - 4 * k } : k \in 0..CenturyCount }
    \cup { -4 * k : k \in 0..CenturyCount }
    \cup { -100 * k : k \in 0..CenturyCount }
    \cup { -400 * k : k \in 0..CenturyCount }

\* the first of March of the years above
CycleStartInputs == { date32_t(y, 3, 1) : y \in CycleYears }

(***************************************************************************)
(* Codec runs                                                              *)
(***************************************************************************)

Init ==
  /\ is_arm \in BOOLEAN
  /\ pc = 0
  /\ date = [a \in Decoders |-> NoDate]
  /\ rata_die = [a \in Encoders |-> 0]
  /\ \/ run = "decode_first" /\ dayNumber \in DayInputs /\ ymd = NoDate
     \/ /\ run = "encode_first"
        /\ ymd \in ValidDateInputs \cup CycleStartInputs
        /\ dayNumber = 0
  /\ NoSearch
  /\ NoStep

Decoded(a, d) ==
  /\ IsNext("to_date", a)
  /\ date' = [date EXCEPT ![a] = d]
  /\ pc' = pc + 1
  /\ UNCHANGED << is_arm, run, dayNumber, ymd, rata_die >>
  /\ UNCHANGED leap_vars
  /\ UNCHANGED step_vars

Encoded(a, n) ==
  /\ IsNext("to_rata_die", a)
  /\ rata_die' = [rata_die EXCEPT ![a] = n]
  /\ pc' = pc + 1
  /\ UNCHANGED << is_arm, run, dayNumber, ymd, date >>
  /\ UNCHANGED leap_vars
  /\ UNCHANGED step_vars

call_joffe_to_date ==
  Decoded("joffe", joffe_to_date(DecodeArg("joffe")))

call_l1_to_date ==
  Decoded("l1", benjoffe_article_2_l1_to_date(DecodeArg("l1")))

call_fast64bit_to_date ==
  Decoded("fast64bit", joffe_fast64bit_to_date(DecodeArg("fast64bit"), is_arm))

call_wide_to_date ==
  Decoded("wide", benjoffe_fast32_wide_to_date(DecodeArg("wide"), is_arm))

call_fast32_to_date ==
  Decoded("fast32", benjoffe_fast32_to_date(DecodeArg("fast32"), is_arm))

call_bitapprox_to_date ==
  Decoded("bitapprox", joffe_eras_bitapprox_to_date(DecodeArg("bitapprox")))

call_joffe_to_rata_die ==
  LET t == EncodeArg("joffe")
  IN  Encoded("joffe", joffe_to_rata_die(t.year, t.month, t.day))

call_l1_to_rata_die ==
  LET t == EncodeArg("l1")
  IN  Encoded("l1", benjoffe_article_2_l1_to_rata_die(t.year, t.month, t.day))

call_fast32_to_rata_die ==
  LET t == EncodeArg("fast32")
  IN  Encoded("fast32", benjoffe_fast32_to_rata_die(t.year, t.month, t.day))

Next ==
  \/ call_joffe_to_date
  \/ call_l1_to_date
  \/ call_fast64bit_to_date
  \/ call_wide_to_date
  \/ call_fast32_to_date
  \/ call_bitapprox_to_date
  \/ call_joffe_to_rata_die
  \/ call_l1_to_rata_die
  \/ call_fast32_to_rata_die

Spec == Init /\ [][Next]_vars

(***************************************************************************)
(* Ordinal range test: one day number given to the fast ordinal decoder    *)
(* and to the baseline                                                     *)
(***************************************************************************)

OrdinalDecoders == {"time_rs", "test"}
NoOrdinal == ordinal32_t(0, 0, FALSE)

\* the domain of ordinal_time_rs: 0 <= n + K and 4 * (n + K) + 3 < 2^32
ORDINAL_MIN == -(719468 + 146097 * ordinal_time_rs_S)
ORDINAL_MAX == (1073741823 - 146097 * ordinal_time_rs_S) - 719468

\* the ends of the domain, the ends of the years 1900 (no leap year), 1999
\* and 2000 (a leap year), and 1900-03-01
OrdinalAnchors ==
  { ORDINAL_MIN, ORDINAL_MAX, -25508, -25203, 10956, 11322 }

\* and the first and the last day of the century years around 0
OrdinalInputs ==
  UNION { {a + k : k \in -Window..Window} : a \in OrdinalAnchors }
    \cup { DaysFromCivil(100 * k, 1, 1) : k \in -CenturyCount..CenturyCount }
    \cup { DaysFromCivil(100 * k, 12, 31) : k \in -CenturyCount..CenturyCount }
    \cup { n \in DayInputs : ORDINAL_MIN <= n /\ n <= ORDINAL_MAX }

InitOrdinal ==
  /\ is_arm = FALSE
  /\ run = "ordinal"
  /\ pc = 0
  /\ dayNumber \in OrdinalInputs
  /\ ymd = NoDate
  /\ date = [a \in OrdinalDecoders |-> NoOrdinal]
  /\ rata_die = [a \in Encoders |-> 0]
  /\ NoSearch
  /\ NoStep

\* the k-th call of the range test stores the ordinal date o returned by a
OrdinalDecoded(k, a, o) ==
  /\ run = "ordinal" /\ pc = k
  /\ date' = [date EXCEPT ![a] = o]
  /\ pc' = k + 1
  /\ UNCHANGED << is_arm, run, dayNumber, ymd, rata_die >>
  /\ UNCHANGED leap_vars
  /\ UNCHANGED step_vars

call_ordinal_time_rs_to_date ==
  OrdinalDecoded(0, "time_rs", ordinal_time_rs_to_date(dayNumber))

call_ordinal_test_to_date ==
  OrdinalDecoded(1, "test", ordinal_test_to_date(dayNumber))

NextOrdinal ==
  \/ call_ordinal_time_rs_to_date
  \/ call_ordinal_test_to_date

SpecOrdinal == InitOrdinal /\ [][NextOrdinal]_vars

(***************************************************************************)
(* 64-bit range test: one day number given to both 64-bit decoders         *)
(***************************************************************************)

Decoders64 == {"joffe_backwards_64", "neri_schneider"}
NoDate64 == date64_t(U64(0), 0, 0)

\* -a for an int64_t
Neg64(a) == Sub(U64(0), a)
\* a < b for int64_t values (the sign bit flipped, then unsigned)
Lt64s(a, b) ==
  Lt(Add(a, Dec(<<9, 223, 372, 036, 854, 775, 808>>, W64)),
     Add(b, Dec(<<9, 223, 372, 036, 854, 775, 808>>, W64)))

EXPECT_FAIL_UP == Dec(<<690, 527, 217, 032, 722>>, W64)
EXPECT_FAIL_DOWN == Neg64(Dec(<<690, 527, 216, 974, 165>>, W64))
RANGE_CHECK == Dec(<<4, 294, 967, 296>>, W64)
UP_START == Sub(EXPECT_FAIL_UP, RANGE_CHECK)
DOWN_START == Add(EXPECT_FAIL_DOWN, RANGE_CHECK)

\* the strided sample of the expected range: k * Stride64, |k| <= StrideCount
Stride64 == Dec(<<22, 000, 000, 000, 003>>, W64)

\* the last day numbers before each expected failure, the starts of the two
\* searches, the band around zero with its ends, and the strided sample
RangeInputs ==
  { Sub(EXPECT_FAIL_UP, U64(k)) : k \in 0..Window64 }
    \cup { Add(EXPECT_FAIL_DOWN, U64(k)) : k \in 0..Window64 }
    \cup { Add(UP_START, U64(k)) : k \in 0..Window64 }
    \cup { Sub(DOWN_START, U64(k)) : k \in 0..Window64 }
    \cup { Add(a, FromInt(k, W64)) :
             a \in { U64(0), RANGE_CHECK, Neg64(RANGE_CHECK) },
             k \in -Window64..Window64 }
    \cup { MulS(Stride64, k) : k \in 1..StrideCount }
    \cup { Neg64(MulS(Stride64, k)) : k \in 1..StrideCount }

InitRange ==
  /\ is_arm \in BOOLEAN
  /\ run = "range64"
  /\ pc = 0
  /\ dayNumber \in RangeInputs
  /\ ymd = NoDate
  /\ date = [a \in Decoders64 |-> NoDate64]
  /\ rata_die = [a \in Encoders |-> 0]
  /\ NoSearch
  /\ NoStep

\* the k-th call of an iteration stores the date64_t d returned by a
RangeDecoded(k, a, d) ==
  /\ run = "range64" /\ pc = k
  /\ date' = [date EXCEPT ![a] = d]
  /\ pc' = k + 1
  /\ UNCHANGED << is_arm, run, dayNumber, ymd, rata_die >>
  /\ UNCHANGED leap_vars
  /\ UNCHANGED step_vars

\* date64_t j = joffe_backwards_64_to_date(z);
call_joffe_backwards_64_to_date ==
  RangeDecoded(0, "joffe_backwards_64",
               joffe_backwards_64_to_date(dayNumber, is_arm))

\* date64_t h = neri_schneider_to_date(z);
call_neri_schneider_to_date ==
  RangeDecoded(1, "neri_schneider", neri_schneider_to_date(dayNumber))

NextRange ==
  \/ call_joffe_backwards_64_to_date
  \/ call_neri_schneider_to_date

SpecRange == InitRange /\ [][NextRange]_vars

(***************************************************************************)
(* Leap-year searches: one comparison of run_search / run_search_64bit     *)
(***************************************************************************)

INT64_MIN == Dec(<<9, 223, 372, 036, 854, 775, 808>>, W64)
INT64_MAX == Dec(<<9, 223, 372, 036, 854, 775, 807>>, W64)
TWO_32 == Dec(<<4, 294, 967, 296>>, W64)
TEN_18 == Dec(<<1, 000, 000, 000, 000, 000, 000>>, W64)

Years16 == -32768..32767

Years32 ==
  DayInputs
    \cup { 100 * k : k \in -CenturyCount..CenturyCount }
    \cup { 4 * k : k \in -CenturyCount..CenturyCount }
    \cup { 2147483600 - 100 * k : k \in 0..CenturyCount }
    \cup { 100 * k - 2147483600 : k \in 0..CenturyCount }
    \cup { 100 * k + 1 : k \in -CenturyCount..CenturyCount }
    \cup { INT32_MIN + k : k \in 0..(Window64 \div 2) }

\* the ends of the 64-bit range, the starts of the searches of
\* run_search_64bit (2^32 inside each end), zero, +-2^32 and +-10^18
Years64 ==
  { Add(INT64_MIN, U64(k)) : k \in 0..(2 * Window64) }
    \cup { Sub(INT64_MAX, U64(k)) : k \in 0..(2 * Window64) }
    \cup { Add(a, FromInt(k, W64)) :
             a \in { U64(0), TWO_32, Sub(U64(0), TWO_32),
                     Sub(INT64_MAX, TWO_32), Add(INT64_MIN, TWO_32),
                     TEN_18, Sub(U64(0), TEN_18) },
             k \in -Window64..Window64 }

InitLeap ==
  /\ is_arm = FALSE
  /\ run = "leap_search"
  /\ pc = 0
  /\ dayNumber = 0 /\ ymd = NoDate
  /\ date = [a \in Decoders |-> NoDate]
  /\ rata_die = [a \in Encoders |-> 0]
  /\ \/ width = 16 /\ year \in Years16
     \/ width = 32 /\ year \in Years32
     \/ width = 64 /\ year \in Years64
  /\ ref = FALSE /\ test = FALSE
  /\ biased = << >> /\ cen_check = FALSE
  /\ dir = 0 /\ passCount = 0 /\ hasError = FALSE
  /\ NoStep

\* bool ref = ref_fn(y); bool test = test_fn(y); b and c are the biased
\* year and the cen_check computed inside test_fn
Compared(r, t, b, c) ==
  /\ run = "leap_search" /\ pc = 0
  /\ ref' = r
  /\ test' = t
  /\ biased' = b
  /\ cen_check' = c
  /\ pc' = 1
  /\ UNCHANGED << is_arm, run, dayNumber, ymd, date, rata_die, width, year,
                  dir, passCount, hasError >>
  /\ UNCHANGED step_vars

run_search_16 ==
  /\ width = 16
  /\ Compared(isleap16_textbook(year), isleap16_benjoffe(year),
              isleap16_biased(year), isleap16_cen_check(year))

run_search_32 ==
  /\ width = 32
  /\ Compared(isleap32_textbook(year), isleap32_benjoffe(year),
              isleap32_biased(year), isleap32_cen_check(year))

run_search_64bit ==
  /\ width = 64
  /\ Compared(isleap64_cassioneri(year), isleap64_benjoffe(year),
              isleap64_biased(year), isleap64_cen_check(year))

NextLeap ==
  \/ run_search_16
  \/ run_search_32
  \/ run_search_64bit

SpecLeap == InitLeap /\ [][NextLeap]_vars

(***************************************************************************)
(* run_search<int16_t>: the upward search from 0, then the downward search *)
(* from -1, one loop iteration per step                                    *)
(***************************************************************************)

INT16_MIN == -(2 ^ 15)
INT16_MAX == 2 ^ 15 - 1

\* T yStart = (dir > 0 ? 0 : -1); T yEnd = (dir > 0 ? domain_max : domain_min);
yStart(d) == IF d > 0 THEN 0 ELSE -1
yEnd(d) == IF d > 0 THEN INT16_MAX ELSE INT16_MIN

InitSearch ==
  /\ is_arm = FALSE
  /\ run = "run_search"
  /\ pc = 0
  /\ dayNumber = 0 /\ ymd = NoDate
  /\ date = [a \in Decoders |-> NoDate]
  /\ rata_die = [a \in Encoders |-> 0]
  /\ width = 16
  /\ dir = 1
  /\ year = yStart(1)
  /\ passCount = 0
  /\ hasError = FALSE
  /\ ref = FALSE /\ test = FALSE
  /\ biased = << >> /\ cen_check = FALSE
  /\ NoStep

\* one iteration of the inner loop; a break moves on to the next direction
\* (dir -= 2), which starts at its yStart while dir >= -1
run_search_iterate ==
  /\ run = "run_search" /\ dir >= -1
  /\ LET r == isleap16_textbook(year)
         t == isleap16_benjoffe(year)
         break == r # t \/ year = yEnd(dir)
     IN  /\ ref' = r
         /\ test' = t
         /\ hasError' = (hasError \/ r # t)
         /\ passCount' = IF r # t THEN passCount ELSE passCount + 1
         /\ dir' = IF break THEN dir - 2 ELSE dir
         /\ year' = IF ~break THEN year + dir
                    ELSE IF dir - 2 >= -1 THEN yStart(dir - 2) ELSE year
  /\ UNCHANGED << is_arm, run, pc, dayNumber, ymd, date, rata_die, width,
                  biased, cen_check >>
  /\ UNCHANGED step_vars

\* return passCount;
run_search_return ==
  /\ run = "run_search" /\ dir < -1
  /\ run' = "returned"
  /\ UNCHANGED << is_arm, pc, dayNumber, ymd, date, rata_die >>
  /\ UNCHANGED leap_vars
  /\ UNCHANGED step_vars

NextSearch ==
  \/ run_search_iterate
  \/ run_search_return

SpecSearch == InitSearch /\ [][NextSearch]_vars

(***************************************************************************)
(* Step runs: one step of a conversion applied to the value it starts      *)
(* from, with the locals it computes kept in res                           *)
(***************************************************************************)

\* day numbers whose backward count rev = K - dayNumber lies around a
\* multiple of 146097, at the low and at the high end of [0, 2^32)
CenturyInputs ==
  DayInputs
    \cup { ToInt(Sub(benjoffe_fast32_K,
                     Add(MulS(U32(146097), k), FromInt(j, W32)))) :
             k \in (0..CenturyCount) \cup ((29398 - CenturyCount)..29398),
             j \in -Window..Window }

InitStep ==
  /\ pc = 0
  /\ ymd = NoDate
  /\ date = [a \in Decoders |-> NoDate]
  /\ rata_die = [a \in Encoders |-> 0]
  /\ NoSearch
  /\ res = NoRes
  /\ \/ /\ run \in {"forward_month_day", "backward_month_day"}
        /\ arg \in 0..365
        /\ dayNumber = 0 /\ is_arm = FALSE
     \/ /\ run = "month_days"
        /\ arg \in 1..12
        /\ dayNumber = 0 /\ is_arm = FALSE
     \/ /\ run = "ordinal_month_day"
        /\ arg \in { [ordinal |-> o, leap |-> l] :
                      o \in 1..366, l \in BOOLEAN }
        /\ arg.ordinal <= 365 + (IF arg.leap THEN 1 ELSE 0)
        /\ dayNumber = 0 /\ is_arm \in BOOLEAN
     \/ /\ run = "century"
        /\ dayNumber \in CenturyInputs
        /\ arg = 0 /\ is_arm = FALSE

\* the k-th step of a run of kind r stores v as res[s]
Stepped(r, k, s, v) ==
  /\ run = r /\ pc = k
  /\ res' = res @@ (s :> v)
  /\ pc' = k + 1
  /\ UNCHANGED << is_arm, run, dayNumber, ymd, date, rata_die, arg >>
  /\ UNCHANGED leap_vars

\* N, M, D, bump of joffe::to_date and benjoffe_article_2_l1::to_date
step_forward_month_day ==
  Stepped("forward_month_day", 0, "md", ForwardMonthDay(arg))

\* shift, N, M, D, bump, month of the backward decoders built with IS_ARM 0
step_backward_month_day_x64 ==
  Stepped("backward_month_day", 0, "x64", BackwardMonthDay(U32(arg), FALSE))

\* the same built with IS_ARM 1
step_backward_month_day_arm ==
  Stepped("backward_month_day", 1, "arm", BackwardMonthDay(U32(arg), TRUE))

\* bump, phase, month_days of joffe::to_rata_die
step_joffe_month_days ==
  LET phase == IF arg <= 2 THEN 8829 ELSE -2919
  IN  Stepped("month_days", 0, "joffe", ToNat(joffe_month_days(arg, phase)))

\* bump, shift, month_days of benjoffe_fast32::to_rata_die
step_fast32_month_days ==
  LET shift == IF arg <= 2 THEN 8829 ELSE -2919
  IN  Stepped("month_days", 1, "benjoffe_fast32",
              ToNat(benjoffe_fast32_month_days(arg, shift)))

\* jan_feb_len, shift, num, month, day of benjoffe_ordinal_alternative
step_ordinal_month_day ==
  Stepped("ordinal_month_day", 0, "md",
          OrdinalMonthDay(arg.ordinal, arg.leap,
                          benjoffe_ordinal_alternative_SCALE(is_arm)))

\* rev, cen, jul of benjoffe_fast32::to_date
step_century ==
  LET rev == Sub(benjoffe_fast32_K, FromInt(dayNumber, W32))
      cen == BackwardCentury(rev)
  IN  Stepped("century", 0, "jul",
              [rev |-> rev, cen |-> cen, jul |-> JulianMap(rev, cen)])

NextStep ==
  \/ step_forward_month_day
  \/ step_backward_month_day_x64
  \/ step_backward_month_day_arm
  \/ step_joffe_month_days
  \/ step_fast32_month_days
  \/ step_ordinal_month_day
  \/ step_century

SpecStep == InitStep /\ [][NextStep]_vars

(***************************************************************************)
(* Call runs: one day number given to two calls whose results are compared *)
(***************************************************************************)

\* the domain of boost_joffe_1::to_date: 0 <= a and 4 * a + 3 < 2^32
BOOST_MIN == -boost_joffe_1_ajustment
BOOST_MAX == 1073741823 - boost_joffe_1_ajustment

\* the ends of the domain and the first of March of the years 60735, 60736
\* and 126272, where year + 4800 passes a multiple of 2^16
BoostAnchors ==
  { BOOST_MIN + Window, BOOST_MAX - Window,
    DaysFromCivil(60735, 3, 1), DaysFromCivil(60736, 3, 1),
    DaysFromCivil(126272, 3, 1) }

BoostInputs ==
  UNION { {a + k : k \in -Window..Window} : a \in BoostAnchors }
    \cup { n \in DayInputs : BOOST_MIN <= n /\ n <= BOOST_MAX }

\* the sampled day numbers and the days of the sampled dates, which hold
\* the last day of every month
SuccessorInputs ==
  { n \in DayInputs
           \cup { DaysFromCivil(t.year, t.month, t.day) : t \in ValidDateInputs } :
      n < INT32_MAX }

InitCall ==
  /\ is_arm = FALSE
  /\ pc = 0
  /\ ymd = NoDate
  /\ date = [a \in Decoders |-> NoDate]
  /\ rata_die = [a \in Encoders |-> 0]
  /\ NoSearch
  /\ arg = 0
  /\ res = NoRes
  /\ \/ run = "both_builds" /\ dayNumber \in DayInputs
     \/ run = "boost" /\ dayNumber \in BoostInputs
     \/ run = "successor" /\ dayNumber \in SuccessorInputs

\* joffe_fast64bit::to_date built with IS_ARM 0
both_fast64bit_to_date_x64 ==
  Stepped("both_builds", 0, "x64", joffe_fast64bit_to_date(dayNumber, FALSE))

\* joffe_fast64bit::to_date built with IS_ARM 1
both_fast64bit_to_date_arm ==
  Stepped("both_builds", 1, "arm", joffe_fast64bit_to_date(dayNumber, TRUE))

boost_call_to_date ==
  Stepped("boost", 0, "to_date", boost_joffe_1_to_date(dayNumber))

boost_call_to_rata_die ==
  /\ run = "boost" /\ pc = 1
  /\ LET t == res["to_date"]
     IN  Stepped("boost", 1, "to_rata_die",
                 boost_joffe_1_to_rata_die(t.year, t.month, t.day))

succ_l1_to_date_first ==
  Stepped("successor", 0, "n", benjoffe_article_2_l1_to_date(dayNumber))

succ_l1_to_date_next ==
  Stepped("successor", 1, "n + 1", benjoffe_article_2_l1_to_date(dayNumber + 1))

NextCall ==
  \/ both_fast64bit_to_date_x64
  \/ both_fast64bit_to_date_arm
  \/ boost_call_to_date
  \/ boost_call_to_rata_die
  \/ succ_l1_to_date_first
  \/ succ_l1_to_date_next

SpecCall == InitCall /\ [][NextCall]_vars

(***************************************************************************)
(* Properties                                                              *)
(***************************************************************************)

DecodedBy(a) == run = "decode_first" /\ Called("to_date", a)

\* C1: for every signed 32-bit day number n, benjoffe_article_2_l1's
\* to_rata_die applied to the date returned by its to_date(n) returns n.
C1_RoundTrip ==
  (run = "decode_first" /\ Called("to_rata_die", "l1"))
    => rata_die["l1"] = dayNumber

\* the round trip has been made from the lowest day number, which lies in
\* bucket 4 of the OFFSETS table
C1_Witness ==
  /\ run = "decode_first" /\ Called("to_rata_die", "l1")
  /\ dayNumber = INT32_MIN
  /\ date["l1"] = date32_t(-5877641, 6, 23)
  /\ rata_die["l1"] = INT32_MIN

InJoffeRange(t) ==
  /\ DateLeq(-32800, 3, 1, t.year, t.month, t.day)
  /\ DateLeq(t.year, t.month, t.day, 2900000, 12, 31)

\* C2: for every valid date from -32800-03-01 through 2900000-12-31,
\* joffe's to_date applied to joffe's to_rata_die of the date returns the
\* date.
C2_RoundTrip ==
  (run = "encode_first" /\ Called("to_date", "joffe") /\ InJoffeRange(ymd))
    => date["joffe"] = ymd

\* the round trip has been made from the last date of the range
C2_Witness ==
  /\ run = "encode_first" /\ Called("to_date", "joffe")
  /\ ymd = date32_t(2900000, 12, 31)
  /\ rata_die["joffe"] = 1058484087
  /\ date["joffe"] = ymd

\* C3: the backward-counting joffe_fast64bit to_date returns, for every
\* signed 32-bit day number n, the proleptic Gregorian date of the day n
\* days after 1970-01-01.
C3_FullRange ==
  DecodedBy("fast64bit") => date["fast64bit"] = CivilFromDays(dayNumber)

\* C4: benjoffe_fast32_wide's to_date returns, for every signed 32-bit day
\* number n (in every bucket), the proleptic Gregorian date of the day n days
\* after 1970-01-01.
C4_EveryBucket ==
  DecodedBy("wide") => date["wide"] = CivilFromDays(dayNumber)

\* C5: for every signed 32-bit day number, the backward-counting
\* joffe_fast64bit to_date and benjoffe_fast32_wide's to_date return the same
\* (year, month, day).
C5_Agree ==
  (DecodedBy("fast64bit") /\ DecodedBy("wide"))
    => date["fast64bit"] = date["wide"]

LeapCompared(w) == run = "leap_search" /\ pc = 1 /\ width = w

\* C6: isleap32_benjoffe(y) equals y % 4 == 0 && (y % 100 != 0 ||
\* y % 400 == 0) for every signed 32-bit year y.
C6_Leap32 == LeapCompared(32) => test = IsLeapYear(year)

\* a negative century that is no leap year and a century at the top of the
\* range that is one have been tested
C6_Witness ==
  /\ LeapCompared(32)
  /\ \/ year = -2147483500 /\ test = FALSE
     \/ year = 2147483600 /\ test = TRUE

\* C7: isleap16_benjoffe(y) equals y % 4 == 0 && (y % 100 != 0 ||
\* y % 400 == 0) for every signed 16-bit year y.
C7_Leap16 == LeapCompared(16) => test = IsLeapYear(year)

\* the lowest century of the 16-bit range, -32700, has been tested
C7_Witness == LeapCompared(16) /\ year = -32700 /\ test = FALSE

\* v mod c for an int64_t held as its two's complement pattern, computed
\* limb by limb from the powers p of 256 modulo c; 2^64 is taken off a
\* negative value
RECURSIVE Residue64At(_, _, _, _)
Residue64At(y, c, i, p) ==
  IF i > W64 THEN (IF y[W64] >= 128 THEN c - p ELSE 0)
  ELSE (y[i] * p + Residue64At(y, c, i + 1, (p * 256) % c)) % c

Residue64(y, c) == Residue64At(y, c, 1, 1) % c

Textbook64(y) ==
  Residue64(y, 4) = 0 /\ (Residue64(y, 100) # 0 \/ Residue64(y, 400) = 0)

\* C8: isleap64_benjoffe(y), isleap64_cassioneri(y) and y % 4 == 0 &&
\* (y % 100 != 0 || y % 400 == 0) are equal for every signed 64-bit year y.
C8_Leap64 ==
  LeapCompared(64) => (test = ref /\ test = Textbook64(year))

\* the year -2^63 + 4, for which year + CEN_BIAS wraps, has been tested
C8_Witness ==
  /\ LeapCompared(64)
  /\ year = Add(INT64_MIN, U64(4))
  /\ test = TRUE

EncodedBy(a) == run = "encode_first" /\ Called("to_rata_die", a)

\* C9 as stated: benjoffe_fast32's to_rata_die returns the day number of
\* every valid date that has one in 32 bits, so 0 for 1970-01-01 and 11018
\* for 2000-03-01.
C9_Original ==
  EncodedBy("fast32") =>
    /\ rata_die["fast32"] = DaysFromCivil(ymd.year, ymd.month, ymd.day)
    /\ ymd = date32_t(1970, 1, 1) => rata_die["fast32"] = 0
    /\ ymd = date32_t(2000, 3, 1) => rata_die["fast32"] = 11018

\* C9 amended: benjoffe_fast32's to_rata_die returns the day number of every
\* valid date that has one in 32 bits, so 0 for 1970-01-01 and 11017 for
\* 2000-03-01.
C9_DayCount ==
  EncodedBy("fast32") =>
    /\ rata_die["fast32"] = DaysFromCivil(ymd.year, ymd.month, ymd.day)
    /\ ymd = date32_t(1970, 1, 1) => rata_die["fast32"] = 0
    /\ ymd = date32_t(2000, 3, 1) => rata_die["fast32"] = 11017

\* 2000-03-01 has been encoded
C9_Witness ==
  EncodedBy("fast32") /\ ymd = date32_t(2000, 3, 1) /\ rata_die["fast32"] = 11017

EpochDecoders == {"joffe", "fast32", "wide", "fast64bit"}

\* C10 as stated: each of the four decoders returns 1970-01-01 for 0,
\* 1969-12-31 for -1 and 2000-02-29 for 11017.
C10_Original ==
  \A a \in EpochDecoders :
    DecodedBy(a) =>
      /\ dayNumber = 0 => date[a] = date32_t(1970, 1, 1)
      /\ dayNumber = -1 => date[a] = date32_t(1969, 12, 31)
      /\ dayNumber = 11017 => date[a] = date32_t(2000, 2, 29)

\* C10 amended: each of the four decoders returns 1970-01-01 for 0,
\* 1969-12-31 for -1 and 2000-03-01 for 11017, the leap day 2000-02-29 being
\* returned for 11016.
C10_Epoch ==
  \A a \in EpochDecoders :
    DecodedBy(a) =>
      /\ dayNumber = 0 => date[a] = date32_t(1970, 1, 1)
      /\ dayNumber = -1 => date[a] = date32_t(1969, 12, 31)
      /\ dayNumber = 11016 => date[a] = date32_t(2000, 2, 29)
      /\ dayNumber = 11017 => date[a] = date32_t(2000, 3, 1)

\* day 11017 has been decoded by all four decoders
C10_Witness ==
  /\ dayNumber = 11017
  /\ \A a \in EpochDecoders : DecodedBy(a) /\ date[a] = date32_t(2000, 3, 1)

\* the year of the day number is one of std::chrono::year, -32767..32767
InChronoRange(n) ==
  LET y == CivilFromDays(n).year IN -32767 <= y /\ y <= 32767

\* C11: for every day number whose proleptic Gregorian date has a year in
\* -32767..32767, benjoffe_fast32's to_date (ERAS = 82) returns exactly that
\* date.
C11_ChronoRange ==
  (DecodedBy("fast32") /\ InChronoRange(dayNumber))
    => date["fast32"] = CivilFromDays(dayNumber)

\* the last day of the year 32767 has been decoded
C11_Witness ==
  /\ DecodedBy("fast32")
  /\ dayNumber = 11248737
  /\ date["fast32"] = date32_t(32767, 12, 31)

\* C12: for every signed 32-bit day number, joffe_eras_bitapprox's to_date
\* (4096 buckets of 2^20 days, 7 eras per bucket) and
\* benjoffe_article_2_l1's to_date (8 buckets of 2^29 days) return the same
\* (year, month, day).
C12_SameDate ==
  (DecodedBy("bitapprox") /\ DecodedBy("l1"))
    => date["bitapprox"] = date["l1"]

\* both have decoded the highest day number, in the last bucket of each
C12_Witness ==
  /\ DecodedBy("bitapprox") /\ DecodedBy("l1")
  /\ dayNumber = INT32_MAX
  /\ date["bitapprox"] = date32_t(5881580, 7, 11)
  /\ date["l1"] = date32_t(5881580, 7, 11)

\* C13: for every signed 32-bit day number, the date returned by
\* joffe_eras_bitapprox's to_date has a month in 1..12 and a day between 1
\* and the number of days of that month in that year under the Gregorian
\* leap rule.
C13_ValidDate ==
  DecodedBy("bitapprox") =>
    LET t == date["bitapprox"]
    IN  /\ 1 <= t.month /\ t.month <= 12
        /\ 1 <= t.day /\ t.day <= DaysInMonth(t.year, t.month)

\* the leap day of the year 2000 (day 11016) has been decoded: the 29th of
\* a February
C13_Witness ==
  /\ DecodedBy("bitapprox")
  /\ dayNumber = 11016
  /\ date["bitapprox"] = date32_t(2000, 2, 29)

InOrdinalDomain(n) == ORDINAL_MIN <= n /\ n <= ORDINAL_MAX

C16_CycleStart ==
  ( /\ run = "encode_first" /\ Called("to_date", "joffe")
    /\ ymd.year % 4 = 0 /\ -32800 <= ymd.year /\ ymd.year <= 2900000
    /\ ymd.month = 3 /\ ymd.day = 1 )
    => ( /\ date["joffe"].year = ymd.year
         /\ date["joffe"].month = 3
         /\ date["joffe"].day = 1 )

\* the first of March of the year -32800, a multiple of 400 and the first
\* day of the domain, has made the round trip
C16_Witness ==
  /\ run = "encode_first" /\ Called("to_date", "joffe")
  /\ ymd = date32_t(-32800, 3, 1)
  /\ rata_die["joffe"] = -12699422
  /\ date["joffe"] = date32_t(-32800, 3, 1)

\* both decoders have been called on the day number
RangeCompared == run = "range64" /\ pc = 2

\* same_ymd(j, h)
SameYmd64 == date["joffe_backwards_64"] = date["neri_schneider"]

\* C17: joffe_backwards_64_to_date(z) and neri_schneider_to_date(z) return
\* the same (year, month, day) for every z with
\* -690527216974165 < z < 690527217032722, and they differ at
\* z = 690527217032722 and at z = -690527216974165, the first failures of
\* the upward and of the downward search.
C17_AgreeingRange ==
  RangeCompared =>
    /\ (Lt64s(EXPECT_FAIL_DOWN, dayNumber) /\ Lt64s(dayNumber, EXPECT_FAIL_UP))
         => SameYmd64
    /\ dayNumber \in {EXPECT_FAIL_UP, EXPECT_FAIL_DOWN} => ~SameYmd64

\* the two decoders have been compared at the expected upward failure, where
\* Neri-Schneider returns 1890599308000-03-01 and the backward decoder another
\* year
C17_Witness ==
  /\ RangeCompared
  /\ dayNumber = EXPECT_FAIL_UP
  /\ date["neri_schneider"] =
       date64_t(Dec(<<1, 890, 599, 308, 000>>, W64), 3, 1)
  /\ date["joffe_backwards_64"].year = Dec(<<853, 526, 005, 011>>, W64)

\* C18: run_search<int16_t> with the reference isleap16_textbook and the
\* test function isleap16_benjoffe over [INT16_MIN, INT16_MAX] returns a
\* pass count of exactly 4199.
C18_PassCount == run = "returned" => passCount = 4199

\* what the search returns: no mismatch, and every one of the 65536 years
\* counted
SearchCoversDomain ==
  run = "returned" => (~hasError /\ passCount = INT16_MAX - INT16_MIN + 1)

BiasOf(w) ==
  IF w = 16 THEN Resize(U32(isleap16_CEN_BIAS), W16)
  ELSE IF w = 32 THEN isleap32_CEN_BIAS
  ELSE isleap64_CEN_BIAS

\* the year under test is negative
NegativeYear == IF width = 64 THEN year[W64] >= 128 ELSE year < 0

\* year + CEN_BIAS is non-negative, so that the cast keeps its value: the
\* biased year lies below CEN_BIAS for a negative year, and not below it
\* otherwise
PostBiasNonNegative ==
  IF NegativeYear THEN Lt(biased, BiasOf(width))
  ELSE ~Lt(biased, BiasOf(width))

\* the year under test is one of the 68, 48 or 8 lowest years of the 16-bit,
\* 32-bit or 64-bit domain (the years below -CEN_BIAS)
BelowBias ==
  IF width = 16 THEN year < INT16_MIN + 68
  ELSE IF width = 32 THEN year < INT32_MIN + 48
  ELSE NegativeYear /\ Lt(year, Add(INT64_MIN, U64(8)))

LeapComparedAny == run = "leap_search" /\ pc = 1

\* C20 as stated: in each of the three functions CEN_BIAS is a multiple of
\* 100 and year + CEN_BIAS is non-negative for every year of the signed
\* domain, so the cast to the unsigned width never wraps.
C20_Original ==
  LeapComparedAny =>
    /\ ModS(BiasOf(width), 100) = 0
    /\ PostBiasNonNegative

\* C20 amended: in each of the three functions CEN_BIAS is a multiple of
\* 100, and year + CEN_BIAS is non-negative exactly for the years from
\* -CEN_BIAS up: the cast wraps for the 68, 48 and 8 lowest years of the
\* 16-bit, 32-bit and 64-bit domain and for no other year.
C20_Bias ==
  LeapComparedAny =>
    /\ ModS(BiasOf(width), 100) = 0
    /\ PostBiasNonNegative <=> ~BelowBias

\* the lowest 32-bit year has been tested: year + CEN_BIAS is -48, which the
\* cast wraps to 2^32 - 48
C20_Witness ==
  /\ LeapCompared(32)
  /\ year = INT32_MIN
  /\ biased = Dec(<<4, 294, 967, 248>>, W32)
  /\ ~PostBiasNonNegative

(***************************************************************************)
(* Steps of the conversions                                                *)
(***************************************************************************)

\* lengths of the months of a March-based year: March .. December, then
\* January and February (of a leap year) of the next year
MarchMonthLengths == << 31, 30, 31, 30, 31, 31, 30, 31, 30, 31, 31, 29 >>

\* days of a March-based year before its i-th month
RECURSIVE MarchDaysBefore(_)
MarchDaysBefore(i) ==
  IF i = 1 THEN 0 ELSE MarchDaysBefore(i - 1) + MarchMonthLengths[i - 1]

\* the month (1..12, counted from March) that holds day rem (0-indexed)
MarchMonthOf(rem) ==
  CHOOSE i \in 1..12 :
    /\ MarchDaysBefore(i) <= rem
    /\ rem < MarchDaysBefore(i) + MarchMonthLengths[i]

\* C21: for every rem in 0..365, with N = rem * 2141 + 197913,
\* M = N / 65536 and D = N % 65536 / 2141, M is the month (3..14) and D + 1
\* the day of the month of the rem-th day of a March-based year, and M > 12
\* exactly when rem >= 306, which is the bump the code computes.
C21_MonthDay ==
  (run = "forward_month_day" /\ pc = 1) =>
    LET md == res["md"]
        i == MarchMonthOf(arg)
    IN  /\ md.M = i + 2
        /\ md.D + 1 = arg - MarchDaysBefore(i) + 1
        /\ (md.M > 12) <=> (arg >= 306)
        /\ (md.bump = 1) <=> (md.M > 12)

\* the step has been applied to the last day of the March-based year, the
\* 29th of month 14
C21_Witness ==
  /\ run = "forward_month_day" /\ pc = 1
  /\ arg = 365
  /\ res["md"].M = 14 /\ res["md"].D = 28 /\ res["md"].bump = 1

\* days from the first of March to the first day of month m (1..12)
MarchDaysToMonth(m) == MarchDaysBefore(IF m >= 3 THEN m - 2 ELSE m + 10)

\* C22: for every month m in 1..12, month_days = (979 * m + phase) / 32
\* (phase 8829 for m <= 2, -2919 otherwise) is the number of days from the
\* first of March to the first day of month m: 306, 337, 0, 31, 61, 92, 122,
\* 153, 184, 214, 245, 275; for the unsigned copy of joffe and for the
\* int32_t copy of benjoffe_fast32.
C22_MonthDays ==
  run = "month_days" =>
    LET table == << 306, 337, 0, 31, 61, 92, 122, 153, 184, 214, 245, 275 >>
    IN  /\ table[arg] = MarchDaysToMonth(arg)
        /\ pc >= 1 => res["joffe"] = table[arg]
        /\ pc >= 2 => res["benjoffe_fast32"] = table[arg]

\* both copies have computed the 337 days before February
C22_Witness ==
  /\ run = "month_days" /\ pc = 2
  /\ arg = 2
  /\ res["joffe"] = 337 /\ res["benjoffe_fast32"] = 337

\* C23: for every rem in 0..365, the month/day step of the backward 32-bit
\* decoders built with IS_ARM 0 (bump = rem <= 59 chosen before the
\* multiplication) and with IS_ARM 1 (bump = M > 12 after it) gives the same
\* bump, the same month in 1..12 and the same day.
C23_SameBump ==
  (run = "backward_month_day" /\ pc = 2) =>
    /\ res["x64"].bump = res["arm"].bump
    /\ res["x64"].month = res["arm"].month
    /\ res["x64"].day = res["arm"].day
    /\ res["x64"].month \in 1..12

\* both builds have placed rem = 59, the last day that is bumped, on the
\* first of January
C23_Witness ==
  /\ run = "backward_month_day" /\ pc = 2
  /\ arg = 59
  /\ res["x64"] = [bump |-> 1, month |-> 1, day |-> 1]
  /\ res["arm"] = [bump |-> 1, month |-> 1, day |-> 1]

\* C25: for leap in {FALSE, TRUE}, every ordinal in 1..(365 + leap) and both
\* values of SCALE, num / DIVISOR and (num % DIVISOR) / STEP + 1 computed by
\* benjoffe_ordinal_alternative are the month (1..12) and the day of the
\* month of the ordinal-th day of the year.
C25_OrdinalMonthDay ==
  (run = "ordinal_month_day" /\ pc = 1) =>
    LET y == IF arg.leap THEN 2000 ELSE 2001
        md == res["md"]
    IN  /\ md.month \in 1..12
        /\ md.day >= 1 /\ md.day <= DaysInMonth(y, md.month)
        /\ DaysBeforeMonth(y, md.month) + md.day = arg.ordinal

\* the 60th day of a leap year has been placed on the 29th of February by
\* the build with SCALE = 2
C25_Witness ==
  /\ run = "ordinal_month_day" /\ pc = 1
  /\ is_arm = FALSE
  /\ arg = [ordinal |-> 60, leap |-> TRUE]
  /\ res["md"].month = 2 /\ res["md"].day = 29

\* floor(4 * rev / 146097), computed in 64 bits
ExactCentury(rev) == DivS(MulS(Resize(rev, W64), 4), 146097)

CenturyStepped == run = "century" /\ pc = 1

C27_JulianMap ==
  CenturyStepped =>
    LET rev == res["jul"].rev
        cen == res["jul"].cen
        c == Resize(ExactCentury(rev), W32)
    IN  /\ Sub(cen, DivS(cen, 4)) = Sub(c, DivS(c, 4))
        /\ res["jul"].jul = Sub(Add(rev, c), DivS(c, 4))

\* rev = 146097 * 29398, the last multiple below 2^32: cen is 117591 where
\* the quotient is 117592, and jul is the same
C27_Witness ==
  /\ CenturyStepped
  /\ res["jul"].rev = MulS(U32(146097), 29398)
  /\ res["jul"].cen = U32(117591)
  /\ res["jul"].jul = Sub(Add(res["jul"].rev, U32(117592)), U32(29398))

(***************************************************************************)
(* Calls compared with each other                                          *)
(***************************************************************************)

\* C24: for every int32 dayNumber, joffe_fast64bit::to_date built with
\* IS_ARM 0 (bump = ypt < 126464 before N) and built with IS_ARM 1
\* (bump = M > 12 after N) return the same year, month and day.
C24_SameOnBothBuilds ==
  (run = "both_builds" /\ pc = 2) => res["x64"] = res["arm"]

\* both builds have decoded day 0, a day of January, where the bump applies
C24_Witness ==
  /\ run = "both_builds" /\ pc = 2
  /\ dayNumber = 0
  /\ res["x64"] = date32_t(1970, 1, 1)
  /\ res["arm"] = date32_t(1970, 1, 1)

\* C28 as stated: for every dayNumber n with 0 <= n + 2472632 and
\* 4 * (n + 2472632) + 3 < 2^32, boost_joffe_1's to_rata_die applied to the
\* date returned by its to_date(n) returns n.
C28_RoundTrip ==
  (run = "boost" /\ pc = 2) => res["to_rata_die"] = dayNumber

\* b is the calendar successor of a
IsSuccessor(a, b) ==
  IF a.day < DaysInMonth(a.year, a.month)
  THEN b = date32_t(a.year, a.month, a.day + 1)
  ELSE IF a.month < 12
  THEN b = date32_t(a.year, a.month + 1, 1)
  ELSE b = date32_t(a.year + 1, 1, 1)

\* C29: for every int32 n below 2^31 - 1, benjoffe_article_2_l1's
\* to_date(n + 1) is the calendar successor of its to_date(n): the next day
\* of the month, the first of the next month after the last day of a month,
\* the first of January of the next year after the 31st of December; also
\* where n and n + 1 lie in different buckets of the OFFSETS table.
C29_Successor ==
  (run = "successor" /\ pc = 2) => IsSuccessor(res["n"], res["n + 1"])

\* n = -536870913 is the last day number of bucket 6 and n + 1 the first of
\* bucket 7
C29_Witness ==
  /\ run = "successor" /\ pc = 2
  /\ dayNumber = -536870913
  /\ res["n"] = CivilFromDays(-536870913)
  /\ res["n + 1"] = CivilFromDays(-536870912)

\* C30: for every int32 dayNumber, also one outside the domain of joffe
\* where dayNumber + K, 4 * d0 + 3 or jul wraps modulo 2^32, joffe's to_date
\* returns a date with month in 1..12 and day in 1..31.
C30_WellFormed ==
  Called("to_date", "joffe") =>
    /\ date["joffe"].month \in 1..12
    /\ date["joffe"].day \in 1..31

\* the lowest day number, far outside the domain: 4 * d0 + 3 wraps and the
\* date returned is 1970-01-01, not the date of the day
C30_Witness ==
  /\ run = "decode_first" /\ Called("to_date", "joffe")
  /\ dayNumber = INT32_MIN
  /\ date["joffe"] = date32_t(1970, 1, 1)
  /\ date["joffe"] # CivilFromDays(dayNumber)

(***************************************************************************)
(* Checks of the yardstick itself                                          *)
(***************************************************************************)

\* the two directions of the calendar are inverse of each other and
\* CivilFromDays returns valid dates
CalendarConsistent ==
  /\ run = "decode_first" =>
       LET t == CivilFromDays(dayNumber)
       IN  /\ IsValidDate(t.year, t.month, t.day)
           /\ DaysFromCivil(t.year, t.month, t.day) = dayNumber
  /\ run = "encode_first" =>
       CivilFromDays(DaysFromCivil(ymd.year, ymd.month, ymd.day)) = ymd

=============================================================================
